---- MODULE Spec2Model ----
(***************************************************************************)
(* Model of the external-editor round trip of CurCommandDispatcher         *)
(* (qutebrowser/browser/curcommand.py): editor(), _editor_cleanup(),       *)
(* on_editor_closed() and on_editor_error(), together with the temp file,  *)
(* the OS handle table, the page elements and the QProcess signals that    *)
(* drive the two callbacks.                                                *)
(***************************************************************************)
EXTENDS Integers, Sequences, FiniteSets, TLC

(* ------------------------------ bounds --------------------------------- *)
\* number of editor() calls that get as far as mkstemp() in a run of Spec
MaxSessions == 1
\* the same number in a run of SpecConcurrent, where sessions overlap
MaxConcurrent == 2
\* number of non-fatal QProcess errors the host delivers for one process
MaxSoftErrors == 1

Sessions == 1 .. (IF MaxSessions > MaxConcurrent THEN MaxSessions
                  ELSE MaxConcurrent)
\* descriptor numbers the OS hands out; one per session is enough
Fds      == Sessions
NoElem   == "null"
Elements == {"e1", "e2"}

(* ------------------------------ texts ---------------------------------- *)
\* characters of a form field value: a letter, the letter n, the single
\* quote, the backslash, the newline and a non-ASCII letter
BS  == "\\"
SQ  == "'"
DQ  == "\""
NL  == "\n"
EAC == "U+00E9"

\* values of `this.value` the model runs with
Texts ==
  { <<>>, <<SQ, BS, "n">>, <<"a", NL, EAC>> }

\* texts the external editor saves
EditTexts ==
  { <<"a", SQ, NL, BS>> }

\* f.write(text) on a file opened with encoding='utf-8'
RECURSIVE Utf8Encode(_)
Utf8Encode(text) ==
  IF text = <<>> THEN <<>>
  ELSE LET c == Head(text)
           b == IF c = EAC THEN <<195, 169>>
                ELSE IF c = "a" THEN <<97>>
                ELSE IF c = "n" THEN <<110>>
                ELSE IF c = SQ  THEN <<39>>
                ELSE IF c = DQ  THEN <<34>>
                ELSE IF c = BS  THEN <<92>>
                ELSE <<10>>
       IN b \o Utf8Encode(Tail(text))

\* decoding done by a file opened for reading with encoding='utf-8'
RECURSIVE Utf8Decode(_)
Utf8Decode(bytes) ==
  IF bytes = <<>> THEN <<>>
  ELSE LET b == Head(bytes) IN
       IF b = 195 /\ Len(bytes) >= 2 /\ bytes[2] = 169
         THEN <<EAC>> \o Utf8Decode(Tail(Tail(bytes)))
         ELSE << IF b = 97 THEN "a"
                 ELSE IF b = 110 THEN "n"
                 ELSE IF b = 39 THEN SQ
                 ELSE IF b = 34 THEN DQ
                 ELSE IF b = 92 THEN BS
                 ELSE NL >> \o Utf8Decode(Tail(bytes))

\* f.readlines(): the lines of the file, each with its line terminator
RECURSIVE ReadLinesFrom(_, _)
ReadLinesFrom(text, cur) ==
  IF text = <<>> THEN (IF cur = <<>> THEN <<>> ELSE <<cur>>)
  ELSE IF Head(text) = NL
         THEN <<Append(cur, NL)>> \o ReadLinesFrom(Tail(text), <<>>)
         ELSE ReadLinesFrom(Tail(text), Append(cur, Head(text)))

readlines(bytes) == ReadLinesFrom(Utf8Decode(bytes), <<>>)

\* ''.join(lines)
RECURSIVE Join(_)
Join(lines) ==
  IF lines = <<>> THEN <<>> ELSE Head(lines) \o Join(Tail(lines))

\* a read-back that stops after the first line
ReadBackFirstLine(bytes) ==
  LET ls == readlines(bytes) IN IF ls = <<>> THEN <<>> ELSE Head(ls)

\* text = ''.join(f.readlines())
ReadBack(bytes) == Join(readlines(bytes))

\* webelem.javascript_escape: backslash, both quotes and the newline are
\* rewritten as backslash escapes, the backslash first
RECURSIVE javascript_escape(_)
javascript_escape(text) ==
  IF text = <<>> THEN <<>>
  ELSE LET c == Head(text)
           r == IF c = BS THEN <<BS, BS>>
                ELSE IF c = SQ THEN <<BS, SQ>>
                ELSE IF c = DQ THEN <<BS, DQ>>
                ELSE IF c = NL THEN <<BS, "n">>
                ELSE <<c>>
       IN r \o javascript_escape(Tail(text))

\* "this.value='{}'".format(text)
FormatScript(text) == <<"this.value=", SQ>> \o text \o <<SQ>>

\* the single-quoted string literal starting at body: the decoded value and
\* whether the literal is closed exactly at the end of the script
RECURSIVE JsLiteral(_, _)
JsLiteral(body, acc) ==
  IF body = <<>> THEN [ok |-> FALSE, value |-> acc]
  ELSE LET c == Head(body) IN
       IF c = SQ THEN [ok |-> Tail(body) = <<>>, value |-> acc]
       ELSE IF c = NL THEN [ok |-> FALSE, value |-> acc]
       ELSE IF c = BS
         THEN IF Len(body) < 2 THEN [ok |-> FALSE, value |-> acc]
              ELSE LET d == body[2]
                       v == IF d = "n" THEN NL ELSE d
                   IN JsLiteral(Tail(Tail(body)), Append(acc, v))
       ELSE JsLiteral(Tail(body), Append(acc, c))

\* elem.evaluateJavaScript(script) for an assignment to this.value: the new
\* value of the element, given its old one (a script that does not parse
\* assigns nothing)
evaluateJavaScript(script, old) ==
  IF Len(script) >= 2 /\ script[1] = "this.value=" /\ script[2] = SQ
    THEN LET r == JsLiteral(SubSeq(script, 3, Len(script)), <<>>)
         IN IF r.ok THEN r.value ELSE old
    ELSE old

(* ---------------------------- exceptions -------------------------------- *)
Exc(type, msg, code, detail) ==
  [type |-> type, msg |-> msg, code |-> code, detail |-> detail]

None == Exc("", "", 0, "")
\* raise CommandError("No editable element focused!")
NoElementFocused == Exc("CommandError", "No editable element focused!", 0, "")
\* the OSError (or UnicodeEncodeError) leaving the with-block of editor()
TempFileError == Exc("OSError", "write failed", 0, "")
\* raise CommandError("Editor did quit abnormally (status {})!")
EditorAbnormalExit(exitcode) ==
  Exc("CommandError", "Editor did quit abnormally (status {})!", exitcode, "")
\* raise CommandError("Element vanished while editing!")
ElementVanished == Exc("CommandError", "Element vanished while editing!", 0, "")
\* raise CommandError("Failed to delete tempfile...")
TempFileCleanupFailed == Exc("CommandError", "Failed to delete tempfile...", 0, "")
\* raise CommandError("Error while calling editor: {}")
EditorProcessError(message) ==
  Exc("CommandError", "Error while calling editor: {}", 0, message)
\* os.close() of a descriptor that is not open
BadFileDescriptor == Exc("OSError", "EBADF", 0, "")
\* open() or os.remove() of a name that does not exist
FileNotFound == Exc("FileNotFoundError", "ENOENT", 0, "")

\* QProcess.ExitStatus
NormalExit == "NormalExit"
CrashExit  == "CrashExit"
ExitStatuses == {NormalExit, CrashExit}
\* exit codes the host reports
ExitCodes == {0, 2}

\* QProcess.ProcessError
FailedToStart == "FailedToStart"
Crashed       == "Crashed"
Timedout      == "Timedout"
WriteError    == "WriteError"
ReadError     == "ReadError"
UnknownError  == "UnknownError"
ProcessErrors == {FailedToStart, Crashed, Timedout, WriteError, ReadError,
                  UnknownError}
\* the errors a running process can report and survive without the program
\* calling waitFor...() or write(): a failed read of its output pipes
SoftErrors    == {ReadError}

\* the messages dict of on_editor_error
messages ==
  [error \in ProcessErrors |->
     IF error = FailedToStart THEN "The process failed to start."
     ELSE IF error = Crashed THEN "The process crashed."
     ELSE IF error = Timedout THEN "The last waitFor...() function timed out."
     ELSE IF error = WriteError
       THEN "An error occurred when attempting to write to the process."
     ELSE IF error = ReadError
       THEN "An error occurred when attempting to read from the process."
     ELSE "An unknown error occurred."]

(* ------------------------------- state --------------------------------- *)
VARIABLES
  elemText,    \* element -> its value (this.value)
  elemValid,   \* element -> it is still part of the document (not isNull())
  calls,       \* editor() calls the user still makes
  nsess,       \* number of sessions created so far
  elem,        \* session -> the element bound into its callbacks
  oshandle,    \* session -> the descriptor mkstemp() returned (0: none)
  handleOpen,  \* session -> that descriptor is still the session's open file
  fileExists,  \* session -> its temp file name exists
  fileContent, \* session -> the bytes of its temp file
  callbacks,   \* session -> finished/error are connected
  proc,        \* session -> state of its QProcess
  softErrs,    \* session -> non-fatal errors delivered so far
  raised,      \* session -> the exceptions its handlers raised, in order
  cleanups,    \* session -> number of _editor_cleanup invocations
  errorCalls,  \* session -> number of on_editor_error invocations
  expected,    \* session -> the text its temp file was last saved with
  last         \* the operation that produced this state

resources == <<calls, nsess, elem, oshandle, handleOpen, fileExists, fileContent,
               callbacks, proc, softErrs>>
progVars  == <<elemText, elemValid, resources, raised, cleanups, errorCalls,
               expected>>
vars      == <<progVars, last>>

Op(op, s, e, exitcode, exitstatus, error, exc, opened, wrote) ==
  [op |-> op, s |-> s, elem |-> e, exitcode |-> exitcode,
   exitstatus |-> exitstatus, error |-> error, exc |-> exc,
   opened |-> opened, wrote |-> wrote]

\* descriptors currently open in the process
OpenFds == {oshandle[s] : s \in {t \in Sessions : handleOpen[t]}}

\* the descriptor a new open() gets: the lowest one not in use
LowestFreeFd ==
  CHOOSE h \in Fds : h \notin OpenFds /\ \A k \in Fds : k < h => k \in OpenFds

\* elem.isNull()
isNull(e) == e = NoElem \/ ~elemValid[e]

\* elem.evaluateJavaScript('this.value')
Value(e) == IF e = NoElem THEN <<>> ELSE elemText[e]

Start ==
  /\ \E t \in Texts : elemText = [e \in Elements |->
                                       IF e = "e1" THEN t ELSE <<"n">>]
  /\ elemValid = [e \in Elements |-> TRUE]
  /\ nsess = 0
  /\ elem = [s \in Sessions |-> NoElem]
  /\ oshandle = [s \in Sessions |-> 0]
  /\ handleOpen = [s \in Sessions |-> FALSE]
  /\ fileExists = [s \in Sessions |-> FALSE]
  /\ fileContent = [s \in Sessions |-> <<>>]
  /\ callbacks = [s \in Sessions |-> FALSE]
  /\ proc = [s \in Sessions |-> "none"]
  /\ softErrs = [s \in Sessions |-> 0]
  /\ raised = [s \in Sessions |-> <<>>]
  /\ cleanups = [s \in Sessions |-> 0]
  /\ errorCalls = [s \in Sessions |-> 0]
  /\ expected = [s \in Sessions |-> <<>>]
  /\ last = Op("init", 0, NoElem, 0, NormalExit, "", None, FALSE, FALSE)

(* ------------------------------ editor() ------------------------------- *)
\* the session's log keeps which error was raised, not its message argument
Raise(s, exc) == [raised EXCEPT ![s] = Append(@, [exc EXCEPT !.detail = ""])]

\* a variant of the focus test that lets every call through
NothingFocusedSkipped(e) == FALSE

\* if elem.isNull(): the command found no focused editable element
NothingFocused(e) == isNull(e)

\* editor(), run with e the element findFirstElement() returned and writeOk
\* telling whether open(filename, 'w') and f.write(text) succeed
editor(e, writeOk) ==
  IF NothingFocused(e)
    THEN /\ last' = Op("editor", 0, e, 0, NormalExit, "", NoElementFocused,
                       FALSE, FALSE)
         /\ UNCHANGED progVars
    ELSE
      LET s    == nsess + 1
          h    == LowestFreeFd
          text == Value(e)
          fail == text # <<>> /\ ~writeOk
      IN
      /\ nsess' = s
      /\ calls' = calls - 1
      /\ elem' = [elem EXCEPT ![s] = e]
      /\ oshandle' = [oshandle EXCEPT ![s] = h]
      /\ handleOpen' = [handleOpen EXCEPT ![s] = TRUE]
      /\ fileExists' = [fileExists EXCEPT ![s] = TRUE]
      /\ fileContent' = [fileContent EXCEPT ![s] =
                           IF text # <<>> /\ writeOk THEN Utf8Encode(text)
                           ELSE <<>>]
      /\ expected' = [expected EXCEPT ![s] = text]
      /\ callbacks' = [callbacks EXCEPT ![s] = ~fail]
      /\ proc' = [proc EXCEPT ![s] = IF fail THEN "none" ELSE "starting"]
      /\ raised' = IF fail THEN Raise(s, TempFileError) ELSE raised
      /\ last' = Op("editor", s, e, 0, NormalExit, "",
                    IF fail THEN TempFileError ELSE None, FALSE, FALSE)
      /\ UNCHANGED <<elemText, elemValid, softErrs, cleanups, errorCalls>>

\* the user runs :open_editor
OpenEditor ==
  /\ calls > 0
  /\ \E e \in {NoElem} \cup {x \in Elements : elemValid[x]},
        writeOk \in BOOLEAN :
       editor(e, writeOk)

(* --------------------------- _editor_cleanup() ------------------------- *)
\* _editor_cleanup(oshandle, filename) of session s, with deny telling
\* whether the OS refuses os.remove(): the handles and the file afterwards
\* and the exception that leaves the function
_editor_cleanup(s, deny) ==
  LET h    == oshandle[s]
      badf == h \notin OpenFds
  IN
  IF badf
    THEN [handleOpen |-> handleOpen, fileExists |-> fileExists,
          exc |-> BadFileDescriptor]
    ELSE
      LET closed == [t \in Sessions |-> handleOpen[t] /\ oshandle[t] # h]
      IN
      IF ~fileExists[s]
        THEN [handleOpen |-> closed, fileExists |-> fileExists,
              exc |-> FileNotFound]
      ELSE IF deny
        THEN [handleOpen |-> closed, fileExists |-> fileExists,
              exc |-> TempFileCleanupFailed]
      ELSE [handleOpen |-> closed,
            fileExists |-> [fileExists EXCEPT ![s] = FALSE],
            exc |-> None]

(* -------------------------- on_editor_closed() ------------------------- *)
\* a variant of the exit-code test that accepts every exit code
ExitcodeIgnored(exitcode) == FALSE

\* if exitcode != 0
ExitcodeAbnormal(exitcode) == exitcode # 0

on_editor_closed(s, exitcode, exitstatus, deny) ==
  LET e == elem[s] IN
  IF ExitcodeAbnormal(exitcode) THEN
    /\ raised' = Raise(s, EditorAbnormalExit(exitcode))
    /\ last' = Op("closed", s, e, exitcode, exitstatus, "",
                  EditorAbnormalExit(exitcode), FALSE, FALSE)
    /\ UNCHANGED <<elemText, handleOpen, fileExists, cleanups>>
  ELSE IF exitstatus # NormalExit THEN
    /\ last' = Op("closed", s, e, exitcode, exitstatus, "", None,
                  FALSE, FALSE)
    /\ UNCHANGED <<elemText, handleOpen, fileExists, cleanups, raised>>
  ELSE IF isNull(e) THEN
    /\ raised' = Raise(s, ElementVanished)
    /\ last' = Op("closed", s, e, exitcode, exitstatus, "", ElementVanished,
                  FALSE, FALSE)
    /\ UNCHANGED <<elemText, handleOpen, fileExists, cleanups>>
  ELSE IF ~fileExists[s] THEN
    /\ raised' = Raise(s, FileNotFound)
    /\ last' = Op("closed", s, e, exitcode, exitstatus, "", FileNotFound,
                  TRUE, FALSE)
    /\ UNCHANGED <<elemText, handleOpen, fileExists, cleanups>>
  ELSE
    LET text == javascript_escape(ReadBack(fileContent[s]))
        c    == _editor_cleanup(s, deny)
    IN
    /\ elemText' = [elemText EXCEPT ![e] =
                      evaluateJavaScript(FormatScript(text), @)]
    /\ cleanups' = [cleanups EXCEPT ![s] = @ + 1]
    /\ handleOpen' = c.handleOpen
    /\ fileExists' = c.fileExists
    /\ raised' = IF c.exc = None THEN raised ELSE Raise(s, c.exc)
    /\ last' = Op("closed", s, e, exitcode, exitstatus, "", c.exc,
                  TRUE, TRUE)

\* QProcess.finished(exitcode, exitstatus) reaches the connected slot: a
\* running process exits, or a crashed one reports its end
Finished ==
  \E s \in Sessions, exitcode \in ExitCodes, exitstatus \in ExitStatuses,
     deny \in BOOLEAN :
    /\ callbacks[s]
    /\ \/ proc[s] = "running" /\ exitstatus = NormalExit
       \/ proc[s] = "crashing" /\ exitstatus = CrashExit
    /\ proc' = [proc EXCEPT ![s] = "exited"]
    /\ on_editor_closed(s, exitcode, exitstatus, deny)
    /\ UNCHANGED <<elemValid, calls, nsess, elem, oshandle, fileContent, callbacks,
                   softErrs, errorCalls, expected>>

(* --------------------------- on_editor_error() ------------------------- *)
on_editor_error(s, error, deny) ==
  LET c   == _editor_cleanup(s, deny)
      exc == IF c.exc = None THEN EditorProcessError(messages[error])
             ELSE c.exc
  IN
  /\ cleanups' = [cleanups EXCEPT ![s] = @ + 1]
  /\ errorCalls' = [errorCalls EXCEPT ![s] = @ + 1]
  /\ handleOpen' = c.handleOpen
  /\ fileExists' = c.fileExists
  /\ raised' = Raise(s, exc)
  /\ last' = Op("error", s, elem[s], 0, NormalExit, error, exc, FALSE, FALSE)

\* QProcess.error(error) reaches the connected slot: the process fails to
\* start, crashes (finished follows), or hits an error it survives
ProcessError ==
  \E s \in Sessions, error \in {FailedToStart, Crashed} \cup SoftErrors,
     deny \in BOOLEAN :
    /\ callbacks[s]
    /\ \/ /\ error = FailedToStart
          /\ proc[s] = "starting"
          /\ proc' = [proc EXCEPT ![s] = "failed"]
          /\ UNCHANGED softErrs
       \/ /\ error = Crashed
          /\ proc[s] = "running"
          /\ proc' = [proc EXCEPT ![s] = "crashing"]
          /\ UNCHANGED softErrs
       \/ /\ error \in SoftErrors
          /\ proc[s] = "running"
          /\ softErrs[s] < MaxSoftErrors
          /\ softErrs' = [softErrs EXCEPT ![s] = @ + 1]
          /\ UNCHANGED proc
    /\ on_editor_error(s, error, deny)
    /\ UNCHANGED <<elemText, elemValid, calls, nsess, elem, oshandle, fileContent,
                   callbacks, expected>>

(* ----------------------------- environment ----------------------------- *)
\* QProcess.started: the editor process is up (no slot is connected to it)
Started ==
  \E s \in Sessions :
    /\ proc[s] = "starting"
    /\ proc' = [proc EXCEPT ![s] = "running"]
    /\ last' = Op("started", s, elem[s], 0, NormalExit, "", None, FALSE, FALSE)
    /\ UNCHANGED <<elemText, elemValid, calls, nsess, elem, oshandle, handleOpen,
                   fileExists, fileContent, callbacks, softErrs, raised,
                   cleanups, errorCalls, expected>>

\* the external editor saves a new text into the session's file
EditorSaves ==
  \E s \in Sessions, t \in EditTexts :
    /\ proc[s] = "running"
    /\ fileExists[s]
    /\ expected[s] # t
    /\ fileContent' = [fileContent EXCEPT ![s] = Utf8Encode(t)]
    /\ expected' = [expected EXCEPT ![s] = t]
    /\ last' = Op("save", s, elem[s], 0, NormalExit, "", None, FALSE, FALSE)
    /\ UNCHANGED <<elemText, elemValid, calls, nsess, elem, oshandle, handleOpen,
                   fileExists, callbacks, proc, softErrs, raised, cleanups,
                   errorCalls>>

\* the page drops an element (navigation, DOM change)
Vanish ==
  \E e \in Elements :
    /\ elemValid[e]
    /\ elemValid' = [elemValid EXCEPT ![e] = FALSE]
    /\ last' = Op("vanish", 0, e, 0, NormalExit, "", None, FALSE, FALSE)
    /\ UNCHANGED <<elemText, resources, raised, cleanups, errorCalls,
                   expected>>

Next == OpenEditor \/ Started \/ Finished \/ ProcessError \/ EditorSaves \/ Vanish

Init == Start /\ calls = MaxSessions

InitConcurrent == Start /\ calls = MaxConcurrent

Spec == Init /\ [][Next]_vars

SpecConcurrent == InitConcurrent /\ [][Next]_vars

(* ------------------------------ properties ----------------------------- *)
\* the CommandErrors among the exceptions session s raised
CommandErrors(s) ==
  {i \in DOMAIN raised[s] : raised[s][i].type = "CommandError"}

\* the exceptions that can leave _editor_cleanup
CleanupExceptions == {BadFileDescriptor, FileNotFound, TempFileCleanupFailed}

\* C1: after on_editor_closed or on_editor_error of a session has returned,
\* the session's temp file is gone and its OS handle is closed, unless the
\* OS denied the deletion.
C1_TempFileGoneAfterCallback ==
  \A s \in Sessions :
    (last.op \in {"closed", "error"} /\ last.s = s
       /\ last.exc # TempFileCleanupFailed)
    => (~fileExists[s] /\ ~handleOpen[s])

\* C2: a step writes an element only in on_editor_closed with exit code 0,
\* a normal exit and a valid element; every other step (non-zero exit code,
\* crash, process error, vanished element) attempts no write and leaves all
\* element texts as they were.
C2_WriteOnlyOnCleanExit ==
  [][ /\ last'.wrote =>
           /\ last'.op = "closed"
           /\ last'.exitcode = 0
           /\ last'.exitstatus = NormalExit
           /\ elemValid[last'.elem]
      /\ ~last'.wrote => elemText' = elemText ]_vars

\* the editor saved a new text, quit with a non-zero code, and the element
\* still has its old text
C2_Witness ==
  /\ last.op = "closed"
  /\ last.exitcode # 0
  /\ last.exc = EditorAbnormalExit(last.exitcode)
  /\ expected[last.s] \in EditTexts
  /\ elemText[last.elem] # expected[last.s]

C4_NoElementFocused ==
  [][ (last'.op = "editor" /\ last'.elem = NoElem) =>
        (last'.exc = NoElementFocused /\ UNCHANGED progVars) ]_vars

\* editor() was called with nothing focused
C4_Witness ==
  /\ last.op = "editor"
  /\ last.elem = NoElem
  /\ last.exc = NoElementFocused
  /\ nsess = 0

\* C5: when the process crashes, the error callback and the exit callback
\* together report exactly one user-facing error for the session, whatever
\* exit code the exit callback carries.
C5_CrashReportedOnce ==
  \A s \in Sessions :
    (last.op = "closed" /\ last.s = s /\ last.exitstatus = CrashExit
       /\ errorCalls[s] = 1)
    => Cardinality(CommandErrors(s)) = 1

\* C6: a denied deletion is reported after the primary outcome and does not
\* replace it: after the error callback EditorProcessError is among the
\* session's reported errors, after a successful exit the written text is
\* still in the element.
C6_CleanupFailureKeepsOutcome ==
  \A s \in Sessions :
    (last.s = s /\ last.exc = TempFileCleanupFailed) =>
      /\ last.op = "error" =>
           \E i \in DOMAIN raised[s] :
             raised[s][i].msg = EditorProcessError("").msg
      /\ last.op = "closed" =>
           (last.wrote /\ elemText[elem[s]] = expected[s])

\* C7: when writing the element's text to the fresh temp file fails,
\* editor() spawns no process, registers no callback and has released the
\* OS handle mkstemp() opened.
C7_WriteFailureReleasesHandle ==
  \A s \in Sessions :
    (last.op = "editor" /\ last.s = s /\ last.exc = TempFileError) =>
      (proc[s] = "none" /\ ~callbacks[s] /\ ~handleOpen[s])

\* C8: a second invocation of _editor_cleanup for a session closes no
\* handle, deletes no file and raises nothing.
C8_CleanupIdempotent ==
  [][ \A s \in Sessions :
        (cleanups[s] >= 1 /\ cleanups'[s] = cleanups[s] + 1) =>
          /\ handleOpen' = handleOpen
          /\ fileExists' = fileExists
          /\ last'.exc \notin CleanupExceptions ]_vars

\* C9: a callback of one session leaves the file, the handle, the element
\* text and the reported errors of every other session (on another element)
\* as they were.
C9_SessionsIndependent ==
  [][ \A s, t \in Sessions :
        (s # t /\ t <= nsess /\ last'.op \in {"closed", "error"}
           /\ last'.s = s /\ elem[t] # elem[s]) =>
          /\ handleOpen'[t] = handleOpen[t]
          /\ fileExists'[t] = fileExists[t]
          /\ fileContent'[t] = fileContent[t]
          /\ elemText'[elem[t]] = elemText[elem[t]]
          /\ raised'[t] = raised[t] ]_vars

\* C10: cleanup is invoked at most once per session, and an exit callback
\* that follows an error callback of the same session neither opens the
\* temp file nor writes the element.
C10_CleanedUpIsTerminal ==
  \A s \in Sessions :
    /\ cleanups[s] <= 1
    /\ (last.op = "closed" /\ last.s = s /\ errorCalls[s] >= 1) =>
         (~last.opened /\ ~last.wrote)

====
